---- MODULE Spec2Model ----
(***************************************************************************)
(* The VAT-rates pipeline of pipeline.ipynb: the Prefect flow              *)
(* connect_db -> query_db -> extract -> transform -> load, run once a day  *)
(* against the VATRates / VATRatesHistory tables.                          *)
(*                                                                         *)
(* Time is counted in hours.  A timestamp string of the feed               *)
(* ("%Y-%m-%dT%H:%M%z") is a record [ok, wall, off]: whether it parses,    *)
(* its wall-clock reading and its UTC offset.  A data frame is the set of  *)
(* its rows.                                                               *)
(*                                                                         *)
(* The notebook leaves three bodies as placeholders: transform_df returns  *)
(* pd.DataFrame([]), query_db returns True, and load only prints, its SQL  *)
(* being comments.  Here they do what their docstrings and comments say:   *)
(* transform_df builds one row per country, query_db probes VATRates, and  *)
(* load executes the insert or the three-statement transaction.            *)
(***************************************************************************)
EXTENDS Integers, Sequences, FiniteSets, TLC

VARIABLES
    utc,            \* the true current instant (hours, UTC)
    tz,             \* UTC offset of the host's local clock (hours)
    feed,           \* the document the rates URL currently serves
    published,      \* how many times the upstream source changed
    current,        \* committed rows of VATRates
    history,        \* committed content of VATRatesHistory, one batch per archive
    pc,             \* position of the flow run
    run_at,         \* instant of the last trigger (-1: never)
    run_count,      \* task -> number of times the task ran in this flow run
    failed_task,    \* the task whose final Failed state failed the run
    data_loaded,    \* result of query_db
    vat_info,       \* result of extract
    data,           \* result of transform
    txn,            \* the open transaction of load: its step and its view
    pre,            \* tables at the start of the last update transaction
    rollback_at,    \* step at which the last load attempt was rolled back
    inserted,       \* every row ever committed into VATRates
    loads           \* <<instant, snapshot>> of every committed load

vars == <<utc, tz, feed, published, current, history, pc, run_at, run_count,
          failed_task, data_loaded, vat_info, data, txn, pre, rollback_at,
          inserted, loads>>

----------------------------------------------------------------------------
(* Bounds of the model *)

MaxDays == 2
MaxPublish == 1

(* Program constants *)

\* timedelta(hours=24)
WindowHours == 24

\* max_retries=3 of extract and of load
MaxRetries == 3

\* the scheduler's period: every day at 00:00 UTC
DayHours == WindowHours
HalfDay == DayHours \div 2
MaxHours == MaxDays * DayHours

HostOffsets == {0, -5}

\* a document stamped two hours before it is served, in the +02:00 zone
LagHours == WindowHours \div 12

EmptyFrame == {}
NoData == [vat_rates |-> EmptyFrame, update_needed |-> FALSE]

\* raw documents: country -> the rate fields it gives
DocEmpty == [c \in {} |-> [f \in {} |-> 0]]
DocDE == [c \in {"DE"} |-> [f \in {"standard", "reduced"} |-> IF f = "standard" THEN 19 ELSE 7]]
DocDEFR == [c \in {"DE", "FR"} |-> IF c = "DE" THEN [f \in {"standard", "reduced"} |-> IF f = "standard" THEN 19 ELSE 7]
                                                ELSE [f \in {"standard"} |-> 20]]
FeedBodies == {DocEmpty, DocDE, DocDEFR}

Stamp(instant, off) == [ok |-> TRUE, wall |-> instant + off, off |-> off]
Malformed == [ok |-> FALSE, wall |-> 0, off |-> 0]

----------------------------------------------------------------------------
(* Pure functions *)

\* datetime.strptime(s, "%Y-%m-%dT%H:%M%z"): the instant the string names
strptime(s) == s.wall - s.off

\* datetime.now().replace(tzinfo=pytz.UTC): the host's local wall clock,
\* labelled UTC
now_date_of(utc_now, host_off) == utc_now + host_off

\* now_date-timedelta(hours=24) <= last_updated <= now_date
in_window(last_updated, now_date) ==
    /\ now_date - WindowHours <= last_updated
    /\ last_updated <= now_date

\* fillna(0) and astype(float) of one cell
cell(rec, f) == IF f \in DOMAIN rec THEN rec[f] ELSE 0

\* transform_df as its docstring states it: one row per country, missing
\* rates 0, last_updated as a datetime on every row (the body in the
\* notebook is the placeholder "return pd.DataFrame([])")
transform_df(d) ==
    { [country |-> c,
       standard |-> cell(d.rates[c], "standard"),
       reduced |-> cell(d.rates[c], "reduced"),
       last_updated |-> strptime(d.last_updated)] : c \in DOMAIN d.rates }

\* transform with the window test applied to the first load too
transform_window_always(d, loaded, now_date) ==
    IF in_window(strptime(d.last_updated), now_date)
    THEN [vat_rates |-> transform_df(d), update_needed |-> loaded]
    ELSE [vat_rates |-> EmptyFrame, update_needed |-> FALSE]

\* transform(data, data_loaded), with now_date the value datetime.now() gave
transform(d, loaded, now_date) ==
    IF loaded
    THEN IF in_window(strptime(d.last_updated), now_date)
         THEN [vat_rates |-> transform_df(d), update_needed |-> TRUE]
         ELSE [vat_rates |-> EmptyFrame, update_needed |-> FALSE]
    ELSE [vat_rates |-> transform_df(d), update_needed |-> FALSE]

\* load without its history branch: every non-empty frame is inserted
load_path_insert_only(d) ==
    IF Cardinality(d.vat_rates) > 0 THEN "insert" ELSE "noop"

\* load without the test of the frame's length
load_path_no_length_test(d) ==
    IF d.update_needed THEN "update" ELSE "insert"

\* the branch load takes
load_path(d) ==
    IF Cardinality(d.vat_rates) > 0
    THEN IF d.update_needed THEN "update" ELSE "insert"
    ELSE "noop"

\* every task decorated with max_retries=3
max_retries_all(task) == MaxRetries

\* max_retries of each task's decorator (@task alone: none)
max_retries(task) ==
    CASE task = "extract" -> MaxRetries
      [] task = "load" -> MaxRetries
      [] OTHER -> 0

\* bool(cur.fetchone()) of SELECT * FROM VATRates, as the commented lines
\* of query_db have it (the body in the notebook is "return True")
query_db(table) == table # {}

\* an update transaction that does not archive
stmt_copy_nothing(view) == view

\* the statements of the update transaction as load's comments list them,
\* on the transaction's view (the body in the notebook only prints)
stmt_copy(view) == [view EXCEPT !.history = IF view.current = {} THEN @ ELSE Append(@, view.current)]
stmt_delete(view) == [view EXCEPT !.current = {}]
stmt_insert(view, rows) == [view EXCEPT !.current = @ \cup rows]

\* statements committed one by one: a failure keeps what was executed
rollback_nothing(committed, view) ==
    IF view.step = "none" THEN committed
    ELSE [current |-> view.current, history |-> view.history]

\* what a rollback leaves of the committed tables
rollback(committed, view) == committed

NoTxn == [step |-> "none", current |-> {}, history |-> <<>>]
Tasks == {"extract", "transform", "load"}
Zero == [t \in Tasks |-> 0]

----------------------------------------------------------------------------
Init ==
    /\ utc = 0
    /\ tz \in HostOffsets
    /\ feed = [rates |-> DocDE, last_updated |-> Stamp(0, 0)]
    /\ published = 0
    /\ current = {}
    /\ history = <<>>
    /\ pc = "idle"
    /\ run_at = -1
    /\ run_count = Zero
    /\ failed_task = "none"
    /\ data_loaded = FALSE
    /\ vat_info = feed
    /\ data = NoData
    /\ txn = NoTxn
    /\ pre = [current |-> {}, history |-> <<>>]
    /\ rollback_at = "none"
    /\ inserted = {}
    /\ loads = {}

Resting == pc \in {"idle", "success", "failed"}

\* the scheduler has started the run that is due at this instant
RunStarted == utc % DayHours = 0 => run_at = utc

\* time passes between runs; the daily run is never skipped
Tick ==
    /\ Resting
    /\ RunStarted
    /\ utc + HalfDay <= MaxHours
    /\ utc' = utc + HalfDay
    /\ UNCHANGED <<tz, feed, published, current, history, pc, run_at, run_count,
                   failed_task, data_loaded, vat_info, data, txn, pre,
                   rollback_at, inserted, loads>>

\* the upstream source changes: a new document, stamped now (+0000), stamped
\* two hours ago (+0200), stamped ahead of now (clock skew), or with a
\* timestamp that does not parse
Publish ==
    /\ Resting
    /\ published < MaxPublish
    /\ \E b \in FeedBodies :
         \E s \in {Stamp(utc, 0), Stamp(utc - LagHours, LagHours),
                   Stamp(utc + HalfDay, 0), Malformed} :
            feed' = [rates |-> b, last_updated |-> s]
    /\ feed' # feed
    /\ published' = published + 1
    /\ UNCHANGED <<utc, tz, current, history, pc, run_at, run_count,
                   failed_task, data_loaded, vat_info, data, txn, pre,
                   rollback_at, inserted, loads>>

\* the scheduler starts the flow at 00:00 UTC
Trigger ==
    /\ Resting
    /\ utc % DayHours = 0
    /\ run_at # utc
    /\ run_at' = utc
    /\ pc' = "connect_db"
    /\ run_count' = Zero
    /\ failed_task' = "none"
    /\ data' = NoData
    /\ rollback_at' = "none"
    /\ UNCHANGED <<utc, tz, feed, published, current, history, data_loaded,
                   vat_info, txn, pre, inserted, loads>>

ConnectDb ==
    /\ pc = "connect_db"
    /\ pc' = "query_db"
    /\ UNCHANGED <<utc, tz, feed, published, current, history, run_at, run_count,
                   failed_task, data_loaded, vat_info, data, txn, pre,
                   rollback_at, inserted, loads>>

QueryDb ==
    /\ pc = "query_db"
    /\ data_loaded' = query_db(current)
    /\ pc' = "extract"
    /\ UNCHANGED <<utc, tz, feed, published, current, history, run_at, run_count,
                   failed_task, vat_info, data, txn, pre, rollback_at,
                   inserted, loads>>

\* a task run ended Failed: Retrying while run_count <= max_retries
TaskFailed(task) ==
    /\ run_count' = [run_count EXCEPT ![task] = @ + 1]
    /\ IF run_count[task] + 1 <= max_retries(task)
       THEN pc' = pc /\ failed_task' = failed_task
       ELSE pc' = "failed" /\ failed_task' = task

Extract ==
    /\ pc = "extract"
    /\ vat_info' = feed
    /\ run_count' = [run_count EXCEPT !["extract"] = @ + 1]
    /\ pc' = "transform"
    /\ UNCHANGED <<utc, tz, feed, published, current, history, run_at,
                   failed_task, data_loaded, data, txn, pre, rollback_at,
                   inserted, loads>>

\* requests.get gave no response, or json.loads raised
ExtractFail ==
    /\ pc = "extract"
    /\ TaskFailed("extract")
    /\ UNCHANGED <<utc, tz, feed, published, current, history, run_at,
                   data_loaded, vat_info, data, txn, pre, rollback_at,
                   inserted, loads>>

\* strptime raises on a string that does not match the format
Transform ==
    /\ pc = "transform"
    /\ IF vat_info.last_updated.ok
       THEN /\ data' = transform(vat_info, data_loaded, now_date_of(utc, tz))
            /\ run_count' = [run_count EXCEPT !["transform"] = @ + 1]
            /\ pc' = "load"
            /\ failed_task' = failed_task
       ELSE /\ TaskFailed("transform")
            /\ data' = data
    /\ UNCHANGED <<utc, tz, feed, published, current, history, run_at,
                   data_loaded, vat_info, txn, pre, rollback_at, inserted, loads>>

Succeed ==
    /\ run_count' = [run_count EXCEPT !["load"] = @ + 1]
    /\ pc' = "success"
    /\ failed_task' = failed_task

\* load on rows that are empty: nothing is executed
LoadNoop ==
    /\ pc = "load" /\ txn.step = "none"
    /\ load_path(data) = "noop"
    /\ Succeed
    /\ UNCHANGED <<utc, tz, feed, published, current, history, run_at,
                   data_loaded, vat_info, data, txn, pre, rollback_at,
                   inserted, loads>>

\* load for the first time: one INSERT statement
LoadInsert ==
    /\ pc = "load" /\ txn.step = "none"
    /\ load_path(data) = "insert"
    /\ current' = current \cup data.vat_rates
    /\ inserted' = inserted \cup data.vat_rates
    /\ loads' = loads \cup {<<utc, vat_info>>}
    /\ rollback_at' = "none"
    /\ Succeed
    /\ UNCHANGED <<utc, tz, feed, published, history, run_at, data_loaded,
                   vat_info, data, txn, pre>>

\* load on the update path opens the transaction
TxnBegin ==
    /\ pc = "load" /\ txn.step = "none"
    /\ load_path(data) = "update"
    /\ txn' = [step |-> "begun", current |-> current, history |-> history]
    /\ pre' = [current |-> current, history |-> history]
    /\ rollback_at' = "none"
    /\ UNCHANGED <<utc, tz, feed, published, current, history, pc, run_at,
                   run_count, failed_task, data_loaded, vat_info, data,
                   inserted, loads>>

\* 1. Insert data from VATRates to VATRatesHistory
TxnCopy ==
    /\ pc = "load" /\ txn.step = "begun"
    /\ txn' = [stmt_copy(txn) EXCEPT !.step = "copied"]
    /\ UNCHANGED <<utc, tz, feed, published, current, history, pc, run_at,
                   run_count, failed_task, data_loaded, vat_info, data, pre,
                   rollback_at, inserted, loads>>

\* 2. Delete data from VATRates
TxnDelete ==
    /\ pc = "load" /\ txn.step = "copied"
    /\ txn' = [stmt_delete(txn) EXCEPT !.step = "deleted"]
    /\ UNCHANGED <<utc, tz, feed, published, current, history, pc, run_at,
                   run_count, failed_task, data_loaded, vat_info, data, pre,
                   rollback_at, inserted, loads>>

\* 3. the insert built from the dataframe
TxnInsert ==
    /\ pc = "load" /\ txn.step = "deleted"
    /\ txn' = [stmt_insert(txn, data.vat_rates) EXCEPT !.step = "inserted"]
    /\ UNCHANGED <<utc, tz, feed, published, current, history, pc, run_at,
                   run_count, failed_task, data_loaded, vat_info, data, pre,
                   rollback_at, inserted, loads>>

\* the transaction commits: its view becomes the tables
TxnCommit ==
    /\ pc = "load" /\ txn.step = "inserted"
    /\ current' = txn.current
    /\ history' = txn.history
    /\ inserted' = inserted \cup txn.current
    /\ loads' = loads \cup {<<utc, vat_info>>}
    /\ txn' = NoTxn
    /\ Succeed
    /\ UNCHANGED <<utc, tz, feed, published, run_at, data_loaded, vat_info,
                   data, pre, rollback_at>>

\* a statement of load fails: the open transaction is rolled back and the
\* task run ends Failed
LoadFail ==
    /\ pc = "load"
    /\ load_path(data) # "noop"
    /\ LET kept == rollback([current |-> current, history |-> history], txn)
       IN  /\ current' = kept.current
           /\ history' = kept.history
    /\ rollback_at' = txn.step
    /\ txn' = NoTxn
    /\ TaskFailed("load")
    /\ UNCHANGED <<utc, tz, feed, published, run_at, data_loaded, vat_info,
                   data, pre, inserted, loads>>

Next ==
    \/ Tick
    \/ Publish
    \/ Trigger
    \/ ConnectDb
    \/ QueryDb
    \/ Extract
    \/ ExtractFail
    \/ Transform
    \/ LoadNoop
    \/ LoadInsert
    \/ TxnBegin
    \/ TxnCopy
    \/ TxnDelete
    \/ TxnInsert
    \/ TxnCommit
    \/ LoadFail

Spec == Init /\ [][Next]_vars

----------------------------------------------------------------------------
(* Properties *)

Rows(h) == UNION { h[i] : i \in 1..Len(h) }
IsPrefix(s, t) == Len(s) <= Len(t) /\ SubSeq(t, 1, Len(s)) = s
Decided == pc = "load" /\ txn.step = "none" /\ run_count["load"] = 0
FetchedAt == strptime(vat_info.last_updated)

\* C1: a failed update transaction leaves VATRates and VATRatesHistory as
\* they were when it began, and the committed tables never show the archive
\* without the replacement or the replacement without the archive.
C1_LoaderAtomicity ==
    /\ rollback_at # "none" =>
          current = pre.current /\ history = pre.history
    /\ (/\ data.update_needed
        /\ data.vat_rates # {}
        /\ (txn.step # "none" \/ rollback_at # "none" \/ pc = "success")) =>
          \/ current = pre.current /\ history = pre.history
          \/ /\ current = data.vat_rates
             /\ history = Append(pre.history, pre.current)

\* C1 witness: the transaction failed after the delete and before the insert
C1_Witness ==
    /\ rollback_at = "deleted"
    /\ pre.current # {}
    /\ current = pre.current

\* C2: table non-empty, at least one country, last_updated within
\* [now-24h, now] of the true instant: non-empty rows, update_needed.
C2_InWindowUpdates ==
    (/\ Decided
     /\ data_loaded
     /\ DOMAIN vat_info.rates # {}
     /\ utc - WindowHours <= FetchedAt
     /\ FetchedAt <= utc) =>
        data.vat_rates # {} /\ data.update_needed = TRUE

C4_OutsideWindowSkips ==
    (/\ Decided
     /\ data_loaded
     /\ (FetchedAt < utc - WindowHours \/ FetchedAt > utc)) =>
        data.vat_rates = {} /\ data.update_needed = FALSE

\* C5: every row ever committed into VATRates is in VATRates or in
\* VATRatesHistory as it was written, and VATRatesHistory only grows.
C5_NothingLost ==
    /\ [](inserted \subseteq current \cup Rows(history))
    /\ [][IsPrefix(history, history')]_vars

\* C5 witness: rows superseded twice, the second time after a retried load
C5_Witness ==
    /\ Len(history) >= 2
    /\ pc = "success"
    /\ run_count["load"] >= 2
    /\ ~(inserted \subseteq current)

\* C6: VATRates holds at most one row per country.
C6_OneRowPerCountry ==
    \A r1, r2 \in current : r1.country = r2.country => r1 = r2

\* C6 witness: an update committed by a retried load left both countries
C6_Witness ==
    /\ pc = "success"
    /\ run_count["load"] >= 2
    /\ data.update_needed
    /\ Cardinality(current) = 2
    /\ Len(history) >= 1

\* C7: VATRatesHistory changes only on the update path; the first-load path
\* inserts the rows and leaves the history; empty rows change no table.
C7_LoadPaths ==
    [][ /\ history' # history =>
              data.update_needed /\ data.vat_rates # {}
        /\ (/\ pc = "load" /\ pc' = "success"
            /\ ~data.update_needed /\ data.vat_rates # {}) =>
              current' = current \cup data.vat_rates /\ history' = history
        /\ (pc = "load" /\ data.vat_rates = {}) =>
              current' = current /\ history' = history ]_vars

\* C7 witness: the first load inserted its rows, the history is untouched
C7_Witness ==
    /\ pc = "success"
    /\ ~data.update_needed
    /\ data.vat_rates # {}
    /\ current = data.vat_rates
    /\ history = <<>>

\* C8: extract and load run at most 1 + 3 times and fail the run only on
\* the last of them; transform runs once, and its failure fails the run
\* with load never run.
C8_RetryPolicy ==
    /\ run_count["extract"] <= 1 + 3
    /\ run_count["load"] <= 1 + 3
    /\ run_count["transform"] <= 1
    /\ pc = "failed" => failed_task \in Tasks
    /\ failed_task = "extract" => run_count["extract"] = 1 + 3
    /\ failed_task = "load" => run_count["load"] = 1 + 3
    /\ failed_task = "transform" =>
          /\ pc = "failed"
          /\ run_count["transform"] = 1
          /\ run_count["load"] = 0

\* C8 witness: extract succeeded on a retry, load failed on its last retry
C8_Witness ==
    /\ pc = "failed"
    /\ failed_task = "load"
    /\ run_count["extract"] = 2
    /\ run_count["load"] = 4

\* C9: a no-op run on a non-empty table means the source is unchanged: the
\* snapshot's last_updated is the one stored in VATRates (stated for a host
\* whose clock is UTC and a snapshot with a country, stamped in +0000, not
\* in the future).
C9_NoopMeansUnchanged ==
    (/\ tz = 0
     /\ DOMAIN vat_info.rates # {}
     /\ vat_info.last_updated.off = 0
     /\ FetchedAt <= run_at
     /\ pc = "success"
     /\ data_loaded
     /\ data.vat_rates = {}
     /\ data.update_needed = FALSE) =>
        \A r \in current : r.last_updated = FetchedAt

\* C10: under the daily schedule no two runs load the same snapshot, and
\* the history never receives the rows that replace it (stated for a host
\* whose clock is UTC).
C10_NoReinsert ==
    tz = 0 =>
      /\ \A l1, l2 \in loads : l1[2] = l2[2] => l1[1] = l2[1]
      /\ txn.step = "inserted" =>
            txn.history = <<>> \/ txn.history[Len(txn.history)] # txn.current

====
